---------------------------- MODULE Spec2Model ----------------------------
(***************************************************************************)
(* Iterative-deepening alpha-beta search of my_custom_player.py            *)
(* (AlphaBetaAgent and CustomPlayer.get_action).                           *)
(*                                                                         *)
(* The game engine (isolation.DebugState) is an external collaborator; a   *)
(* position is a node of a finite ordered game tree.  Node 0 is the        *)
(* position handed to get_action; node i >= 1 has parent parent[i] and the *)
(* attributes attr[i].  A move is identified with the successor it leads   *)
(* to, so actions() of a node is the ascending sequence of its children    *)
(* and result(s, a) = a.                                                   *)
(***************************************************************************)
EXTENDS Integers, Sequences, FiniteSets, TLC

(* ------------------------------ bounds --------------------------------- *)
\* most positions below the root in a game tree
MaxNodes == 4
\* max_depth handed to compute (get_action passes 100); also the greatest
\* height of a game tree
MaxDepth == 3
\* most liberties of a player, and the greatest ply_count, the heuristic is
\* evaluated on when it is checked on its own
MaxLiberties == 8
MaxPly == 99

(* --------------------------- program constants ------------------------- *)
BOARD_SIZE == 99
\* float("inf"): larger than every heuristic value of the model
Inf == 1000
\* best_move = None
None == 0
\* the gameState given to get_action
Root == 0
\* (len(agent_liberties), len(opponent_liberties)) of the positions of a
\* searched tree
LibSamples == {<<1, 0>>, <<0, 1>>}
\* ply_count of the root of a searched tree: the root's successors are scored
\* in the first phase of the custom heuristic, deeper positions in the second
RootPlySamples == {(BOARD_SIZE \div 2) - 1}

VARIABLES
    parent,     \* the game tree: parent[i] is the parent of node i
    attr,       \* attr[i]: kind ("win" | "loss" | "open"), liberties a and o of node i
    rootPly,    \* gameState.ply_count of the root
    h_type,     \* AlphaBetaAgent.h_type
    pc,         \* position of get_action / compute / minimax_decision
    depth,      \* compute: loop variable depth
    alpha,      \* minimax_decision: alpha
    beta,       \* minimax_decision: beta
    best_score, \* minimax_decision: best_score
    best_move,  \* minimax_decision: best_move
    idx,        \* minimax_decision: position of the for loop in actions()
    scores,     \* minimax_decision: the values computed by the loop so far
    calls,      \* the min_value / max_value calls of the running search
    evals,      \* the positions heuristic was invoked on in the running search
    ret,        \* the value minimax_decision returned (compute yields it)
    queue       \* self.queue: the actions put so far

vars == <<parent, attr, rootPly, h_type, pc, depth, alpha, beta, best_score,
          best_move, idx, scores, calls, evals, ret, queue>>

Min(a, b) == IF a <= b THEN a ELSE b
Max(a, b) == IF a >= b THEN a ELSE b

(* ---------------------------- the game engine --------------------------- *)
RECURSIVE Level(_, _)
Level(p, i) == IF i = Root THEN 0 ELSE 1 + Level(p, p[i])

RECURSIVE OnPath(_, _, _)
\* target is j or an ancestor of j
OnPath(p, j, target) ==
    \/ j = target
    \/ j # Root /\ OnPath(p, p[j], target)

\* ordered trees with n nodes below the root, numbered in preorder, of
\* height at most MaxDepth
Shapes(n) ==
    {p \in [1..n -> 0..(n - 1)] :
        /\ \A i \in 1..n : p[i] < i
        /\ \A i \in 2..n : OnPath(p, i - 1, p[i])
        /\ \A i \in 1..n : Level(p, i) <= MaxDepth}

Position(k, al, ol) == [kind |-> k, a |-> al, o |-> ol]
\* positions whose game is over: won or lost by the agent
Terminal == {Position("win", 0, 0), Position("loss", 0, 0)}
Open(libs) == {Position("open", l[1], l[2]) : l \in libs}

HasChild(p, i) == \E j \in 1..Len(p) : p[j] = i

\* the attributes of the nodes of tree p: the root is open, and a position
\* whose game is over has no successors
Attrs(p, rootAttrs, libs) ==
    {[i \in 0..Len(p) |-> IF i = Root THEN r ELSE f[i]] :
        r \in rootAttrs,
        f \in {g \in [1..Len(p) -> Terminal \cup Open(libs)] :
                  \A i \in 1..Len(p) : HasChild(p, i) => g[i].kind = "open"}}

\* gameState.actions(): the successors of s, in ascending order
actions(s) == SelectSeq([i \in 1..Len(parent) |-> i], LAMBDA i : parent[i] = s)
\* gameState.result(action)
result(s, action) == action
\* gameState.terminal_test()
terminal_test(s) == attr[s].kind # "open"
\* gameState.utility(self.agent_player)
utility(s) == IF attr[s].kind = "win" THEN Inf ELSE -Inf
\* gameState.ply_count
ply_count(s) == rootPly + Level(parent, s)

(* ------------------------------ heuristic ------------------------------- *)
\* mutant: m = ply_count // BOARD_SIZE, floor division
FirstPhaseFloorDiv(ply) == 2 * (ply \div BOARD_SIZE) < 1

\* m = ply_count / BOARD_SIZE; m < 0.5  (true division: m < 1/2 iff 2 * ply_count < BOARD_SIZE)
FirstPhase(ply) == 2 * ply < BOARD_SIZE

\* lines 32-47, on len(agent_liberties) and len(opponent_liberties)
heuristic_value(h, ply, agent_liberties, opponent_liberties) ==
    IF h = 0 THEN agent_liberties - opponent_liberties
    ELSE IF FirstPhase(ply) THEN agent_liberties - (2 * opponent_liberties)
    ELSE (2 * agent_liberties) - opponent_liberties

heuristic(s) == heuristic_value(h_type, ply_count(s), attr[s].a, attr[s].o)

(* ------------------------- min_value / max_value ------------------------ *)
\* What a call hands back: the value it returns, the calls made below it
\* and the positions heuristic was invoked on below it.
Outcome(v, c, e) == [value |-> v, calls |-> c, evals |-> e]

Call(f, s, from, al, be, d, v) ==
    [fn |-> f, state |-> s, caller |-> from, alpha |-> al, beta |-> be,
     depth |-> d, value |-> v]

RECURSIVE min_value(_, _, _, _), max_value(_, _, _, _)
RECURSIVE min_loop(_, _, _, _, _, _), max_loop(_, _, _, _, _, _)

\* mutant: min_value prunes against beta
min_prunes_beta(value, al, be) == value <= be
\* mutant: the bounds are shared with the call just made, which raised alpha
min_tightens_shared(value, al, be) == <<Max(al, value), Min(be, value)>>

\* line 94: if value <= alpha: return value
min_prunes(value, al, be) == value <= al
\* line 96: beta = min(beta, value)
min_tightens(value, al, be) == <<al, Min(be, value)>>
\* line 115: if value >= beta: return value
max_prunes(value, al, be) == value >= be
\* line 117: alpha = max(alpha, value)
max_tightens(value, al, be) == <<Max(al, value), be>>

\* lines 92-96: the for loop of min_value over the remaining actions acts;
\* acc.value is the local value, al and be the locals alpha and beta
min_loop(gameState, acts, al, be, d, acc) ==
    IF acts = <<>> THEN acc
    ELSE LET child == result(gameState, Head(acts))
             r == max_value(child, al, be, d - 1)
             value == Min(acc.value, r.value)
             now == Outcome(value,
                            acc.calls \cup r.calls
                                \cup {Call("max_value", child, gameState, al, be, d - 1, r.value)},
                            acc.evals \cup r.evals)
             bounds == min_tightens(value, al, be)
         IN  IF min_prunes(value, al, be) THEN now
             ELSE min_loop(gameState, Tail(acts), bounds[1], bounds[2], d, now)

\* mutant: the depth horizon is tested before terminal_test
min_value_horizon_first(gameState, al, be, d) ==
    IF d <= 0 THEN Outcome(heuristic(gameState), {}, {gameState})
    ELSE IF terminal_test(gameState) THEN Outcome(utility(gameState), {}, {})
    ELSE min_loop(gameState, actions(gameState), al, be, d, Outcome(Inf, {}, {}))

\* lines 79-98
min_value(gameState, al, be, d) ==
    IF terminal_test(gameState) THEN Outcome(utility(gameState), {}, {})
    ELSE IF d <= 0 THEN Outcome(heuristic(gameState), {}, {gameState})
    ELSE min_loop(gameState, actions(gameState), al, be, d, Outcome(Inf, {}, {}))

\* lines 113-117: the for loop of max_value over the remaining actions acts
max_loop(gameState, acts, al, be, d, acc) ==
    IF acts = <<>> THEN acc
    ELSE LET child == result(gameState, Head(acts))
             r == min_value(child, al, be, d - 1)
             value == Max(acc.value, r.value)
             now == Outcome(value,
                            acc.calls \cup r.calls
                                \cup {Call("min_value", child, gameState, al, be, d - 1, r.value)},
                            acc.evals \cup r.evals)
             bounds == max_tightens(value, al, be)
         IN  IF max_prunes(value, al, be) THEN now
             ELSE max_loop(gameState, Tail(acts), bounds[1], bounds[2], d, now)

\* mutant: value starts from alpha instead of float("-inf")
max_value_from_alpha(gameState, al, be, d) ==
    IF terminal_test(gameState) THEN Outcome(utility(gameState), {}, {})
    ELSE IF d <= 0 THEN Outcome(heuristic(gameState), {}, {gameState})
    ELSE max_loop(gameState, actions(gameState), al, be, d, Outcome(al, {}, {}))

\* lines 100-119
max_value(gameState, al, be, d) ==
    IF terminal_test(gameState) THEN Outcome(utility(gameState), {}, {})
    ELSE IF d <= 0 THEN Outcome(heuristic(gameState), {}, {gameState})
    ELSE max_loop(gameState, actions(gameState), al, be, d, Outcome(-Inf, {}, {}))

(* ---------------------------- minimax_decision -------------------------- *)
\* one iteration of the for loop of minimax_decision (lines 68-72) on the
\* locals loc = [alpha, beta, best_score, best_move]
root_step(loc, action, d) ==
    LET r == min_value(result(Root, action), loc.alpha, loc.beta, d - 1)
        value == r.value
    IN  [alpha |-> Max(loc.alpha, value),
         beta |-> loc.beta,
         best_score |-> IF value > loc.best_score THEN value ELSE loc.best_score,
         best_move |-> IF value > loc.best_score THEN action ELSE loc.best_move,
         value |-> value,
         calls |-> r.calls \cup {Call("min_value", result(Root, action), Root,
                                      loc.alpha, loc.beta, d - 1, value)},
         evals |-> r.evals]

\* lines 62-65
root_locals ==
    [alpha |-> -Inf, beta |-> Inf, best_score |-> -Inf, best_move |-> None]

RECURSIVE root_loop(_, _, _)
root_loop(acts, loc, d) ==
    IF acts = <<>> THEN loc
    ELSE root_loop(Tail(acts), root_step(loc, Head(acts), d), d)

Range(seq) == {seq[i] : i \in 1..Len(seq)}

\* the moves minimax_decision(gameState, d) can return; random.choice makes
\* it a set, empty when random.choice raises on an empty list
minimax_decision(d) ==
    LET loc == root_loop(actions(Root), root_locals, d)
    IN  IF loc.best_move = None THEN Range(actions(Root)) ELSE {loc.best_move}

(* ------------------------------- actions -------------------------------- *)
\* the position get_action is called on and the agent it builds: get_action
\* passes h_type = 1, the benchmark agent is the same class with h_type = 0
Game ==
    /\ \E n \in 0..MaxNodes : parent \in Shapes(n)
    /\ attr \in Attrs(parent, {Position("open", 0, 0)}, LibSamples)
    /\ rootPly \in RootPlySamples
    /\ h_type \in {0, 1}

Idle ==
    /\ depth = 1
    /\ alpha = -Inf
    /\ beta = Inf
    /\ best_score = -Inf
    /\ best_move = None
    /\ idx = 1
    /\ scores = <<>>
    /\ calls = {}
    /\ evals = {}
    /\ ret = None
    /\ queue = <<>>

Init == Game /\ Idle /\ pc = "compute"

game == <<parent, attr, rootPly, h_type>>
locals == <<alpha, beta, best_score, best_move, idx, scores, calls, evals>>

\* compute, line 54 and minimax_decision, lines 62-65: the next depth starts
StartDepth ==
    /\ pc = "compute"
    /\ depth <= MaxDepth
    /\ alpha' = root_locals.alpha
    /\ beta' = root_locals.beta
    /\ best_score' = root_locals.best_score
    /\ best_move' = root_locals.best_move
    /\ idx' = 1
    /\ scores' = <<>>
    /\ calls' = {}
    /\ evals' = {}
    /\ pc' = "loop"
    /\ UNCHANGED <<game, depth, ret, queue>>

\* mutant: range(1, max_depth) stops one depth early
ExhaustedEarly ==
    /\ pc = "compute"
    /\ depth > MaxDepth - 1
    /\ pc' = "done"
    /\ UNCHANGED <<game, depth, locals, ret, queue>>

\* compute, line 54: range(1, max_depth + 1) is exhausted; get_action returns
Exhausted ==
    /\ pc = "compute"
    /\ depth > MaxDepth
    /\ pc' = "done"
    /\ UNCHANGED <<game, depth, locals, ret, queue>>

\* mutant: the best move so far is put on the queue inside the loop
RootStepPublishing ==
    /\ pc = "loop"
    /\ idx <= Len(actions(Root))
    /\ LET loc == root_step([alpha |-> alpha, beta |-> beta,
                             best_score |-> best_score, best_move |-> best_move],
                            actions(Root)[idx], depth)
       IN  /\ alpha' = loc.alpha
           /\ beta' = loc.beta
           /\ best_score' = loc.best_score
           /\ best_move' = loc.best_move
           /\ scores' = Append(scores, loc.value)
           /\ calls' = calls \cup loc.calls
           /\ evals' = evals \cup loc.evals
           /\ queue' = Append(queue, loc.best_move)
    /\ idx' = idx + 1
    /\ UNCHANGED <<game, pc, depth, ret>>

\* minimax_decision, lines 67-72: one iteration of the loop
RootStep ==
    /\ pc = "loop"
    /\ idx <= Len(actions(Root))
    /\ LET loc == root_step([alpha |-> alpha, beta |-> beta,
                             best_score |-> best_score, best_move |-> best_move],
                            actions(Root)[idx], depth)
       IN  /\ alpha' = loc.alpha
           /\ beta' = loc.beta
           /\ best_score' = loc.best_score
           /\ best_move' = loc.best_move
           /\ scores' = Append(scores, loc.value)
           /\ calls' = calls \cup loc.calls
           /\ evals' = evals \cup loc.evals
    /\ idx' = idx + 1
    /\ UNCHANGED <<game, pc, depth, ret, queue>>

\* lines 74, 77: the loop is over and has set best_move
ReturnBest ==
    /\ pc = "loop"
    /\ idx > Len(actions(Root))
    /\ best_move # None
    /\ ret' = best_move
    /\ pc' = "yield"
    /\ UNCHANGED <<game, depth, locals, queue>>

\* mutant: no fallback, best_move is returned as it is
ReturnNone ==
    /\ pc = "loop"
    /\ idx > Len(actions(Root))
    /\ best_move = None
    /\ ret' = best_move
    /\ pc' = "yield"
    /\ UNCHANGED <<game, depth, locals, queue>>

\* line 74: the loop is over and best_move is still None
EnterFallback ==
    /\ pc = "loop"
    /\ idx > Len(actions(Root))
    /\ best_move = None
    /\ pc' = "fallback"
    /\ UNCHANGED <<game, depth, locals, ret, queue>>

\* lines 75, 77: random.choice(gameState.actions())
RandomChoice ==
    /\ pc = "fallback"
    /\ actions(Root) # <<>>
    /\ \E m \in Range(actions(Root)) :
          /\ best_move' = m
          /\ ret' = m
    /\ pc' = "yield"
    /\ UNCHANGED <<game, depth, alpha, beta, best_score, idx, scores, calls, evals, queue>>

\* line 75: random.choice raises IndexError on an empty list
ChoiceError ==
    /\ pc = "fallback"
    /\ actions(Root) = <<>>
    /\ pc' = "error"
    /\ UNCHANGED <<game, depth, locals, ret, queue>>

\* compute, line 55 and get_action, lines 164-165: the result is yielded and
\* put on the queue; the generator resumes with the next depth
Put ==
    /\ pc = "yield"
    /\ queue' = Append(queue, ret)
    /\ depth' = depth + 1
    /\ pc' = "compute"
    /\ UNCHANGED <<game, locals, ret>>

Next ==
    \/ StartDepth
    \/ Exhausted
    \/ RootStep
    \/ ReturnBest
    \/ EnterFallback
    \/ RandomChoice
    \/ ChoiceError
    \/ Put

\* The caller cuts get_action off by stopping it: a behaviour may stutter
\* forever in any state, so an invariant holds at every cut-off point.
Spec == Init /\ [][Next]_vars

(* ---------------------- the heuristic on its own ------------------------ *)
\* One position, the root, with every ply_count and every pair of liberty
\* counts up to the bounds; heuristic is applied to it once.
LibertyPairs == (0..MaxLiberties) \X (0..MaxLiberties)

InitH ==
    /\ parent = <<>>
    /\ attr \in Attrs(parent, Open(LibertyPairs), {})
    /\ rootPly \in 0..MaxPly
    /\ h_type \in {0, 1}
    /\ Idle
    /\ pc = "heuristic"

\* heuristic, lines 22-47
EvalHeuristic ==
    /\ pc = "heuristic"
    /\ ret' = heuristic(Root)
    /\ evals' = {Root}
    /\ pc' = "evaluated"
    /\ UNCHANGED <<game, depth, alpha, beta, best_score, best_move, idx, scores, calls, queue>>

NextH == EvalHeuristic

SpecH == InitH /\ [][NextH]_vars

(* ------------------------- reference definitions ------------------------ *)
SetMin(S) == CHOOSE x \in S : \A y \in S : x <= y
SetMax(S) == CHOOSE x \in S : \A y \in S : x >= y

RECURSIVE full_min(_, _), full_max(_, _)
\* depth-limited minimax without pruning: terminal first, then the horizon
full_min(s, d) ==
    IF terminal_test(s) THEN utility(s)
    ELSE IF d <= 0 THEN heuristic(s)
    ELSE SetMin({Inf} \cup {full_max(c, d - 1) : c \in Range(actions(s))})

full_max(s, d) ==
    IF terminal_test(s) THEN utility(s)
    ELSE IF d <= 0 THEN heuristic(s)
    ELSE SetMax({-Inf} \cup {full_min(c, d - 1) : c \in Range(actions(s))})

\* the root is a maximizing step that is expanded whatever it is
full_root(d) == SetMax({-Inf} \cup {full_min(c, d - 1) : c \in Range(actions(Root))})

\* the for loop of minimax_decision has gone through every action
LoopOver ==
    \/ pc = "loop" /\ idx > Len(actions(Root))
    \/ pc \in {"fallback", "yield"}

\* the positions the running search called min_value or max_value on
Visited == {c.state : c \in calls}

\* the call record of position s in the running search, the root's being
\* the bounds minimax_decision starts from
Received(s) ==
    IF s = Root THEN [fn |-> "minimax_decision", alpha |-> -Inf, beta |-> Inf]
    ELSE CHOOSE c \in calls : c.state = s

\* an expanded position one of whose successors was never visited
Expanded(c) == ~terminal_test(c.state) /\ c.depth > 0
SomePruned ==
    \E c \in calls : Expanded(c) /\ \E k \in Range(actions(c.state)) : k \notin Visited

\* a position that is not terminal and has no legal move
Stuck(s) == ~terminal_test(s) /\ actions(s) = <<>>

(* -------------------------------- claims -------------------------------- *)

\* C1: when the root loop of minimax_decision at depth d is over, best_score
\* is the value of the full unpruned depth-d minimax of the root.
AlphaBetaEquivalence ==
    LoopOver => best_score = full_root(depth)

\* C1 witness: a finished search that skipped a successor by pruning.
AlphaBetaWitness ==
    /\ pc = "yield"
    /\ SomePruned
    /\ best_score = full_root(depth)

\* C2: the move minimax_decision returns is the earliest action whose score
\* equals the best score of the root loop.
FirstBest ==
    LET acts == actions(Root)
        tops == {i \in 1..Len(scores) : \A j \in 1..Len(scores) : scores[j] <= scores[i]}
    IN  acts[SetMin(tops)]

TieBreakFirst ==
    (pc = "yield" /\ actions(Root) # <<>>) => ret = FirstBest

\* C2, where it holds: when some root move scores above -infinity the move
\* returned is the earliest one with the best score.
TieBreakAboveLoss ==
    (pc = "yield" /\ best_score > -Inf) => ret = FirstBest

\* C3: from a root with a legal move, minimax_decision raises nothing and
\* returns one of the root's actions.
ReturnsLegalMove ==
    actions(Root) # <<>> =>
        /\ pc # "error"
        /\ pc = "yield" => (ret # None /\ ret \in Range(actions(Root)))

\* C3 witness: a search of depth 2 or more returns the second of two or more
\* root actions.
LegalMoveWitness ==
    /\ pc = "yield"
    /\ depth >= 2
    /\ Len(actions(Root)) >= 2
    /\ ret = actions(Root)[2]

\* C4: at every point of get_action the queue holds the results of the
\* searches of depth 1 .. k, in that order, all of them finished, and k is
\* the number of depths that were completed and published.
AnytimePublication ==
    /\ Len(queue) = depth - 1
    /\ \A i \in 1..Len(queue) : queue[i] \in minimax_decision(i)

\* C4 witness: in the middle of the depth-2 or deeper search the best move so
\* far is not what that search will return, and it is not on the queue.
AnytimeWitness ==
    /\ pc = "loop"
    /\ idx > 1
    /\ idx <= Len(actions(Root))
    /\ Len(queue) >= 1
    /\ best_move # None
    /\ best_move \notin minimax_decision(depth)
    /\ best_move \notin Range(queue)

\* C5: when compute is exhausted it has yielded exactly max_depth results,
\* the k-th being the result of minimax_decision at depth k.
ExactlyMaxDepthResults ==
    pc = "done" =>
        /\ depth = MaxDepth + 1
        /\ Len(queue) = MaxDepth
        /\ \A k \in 1..MaxDepth : queue[k] \in minimax_decision(k)

\* C5 witness: compute is exhausted and the results of two depths differ.
ExhaustedWitness ==
    /\ pc = "done"
    /\ Len(queue) = MaxDepth
    /\ queue[1] # queue[2]
    /\ minimax_decision(1) \cap minimax_decision(2) = {}

\* C6: every call of min_value or max_value on a terminal position returned
\* its utility, and heuristic was never invoked on a terminal position.
TerminalOverride ==
    /\ \A c \in calls : terminal_test(c.state) => c.value = utility(c.state)
    /\ \A s \in evals : ~terminal_test(s)

\* C6 witness: a terminal position was reached with no depth left, another
\* with depth left, and heuristic was invoked in the same search.
TerminalWitness ==
    /\ \E c \in calls : terminal_test(c.state) /\ c.depth <= 0
    /\ \E c \in calls : terminal_test(c.state) /\ c.depth > 0
    /\ evals # {}

\* C7: a call with depth left on a position that is not terminal and has no
\* legal move returned +infinity from min_value, -infinity from max_value.
DegenerateMobility ==
    \A c \in calls :
        (Stuck(c.state) /\ c.depth > 0) =>
            c.value = IF c.fn = "min_value" THEN Inf ELSE -Inf

\* C7 witness: in one search min_value and max_value each met such a
\* position, max_value under bounds other than the initial ones.
DegenerateWitness ==
    /\ \E c \in calls : Stuck(c.state) /\ c.depth > 0 /\ c.fn = "min_value"
    /\ \E c \in calls : Stuck(c.state) /\ c.depth > 0 /\ c.fn = "max_value"
                          /\ (c.alpha > -Inf \/ c.beta < Inf)

\* C8: with h_type = 1 heuristic returns a - 2*o while ply_count <= 49 and
\* 2*a - o from ply_count = 50 on.
PhaseAdaptive ==
    (pc = "evaluated" /\ h_type = 1) =>
        ret = IF rootPly <= 49
              THEN attr[Root].a - 2 * attr[Root].o
              ELSE 2 * attr[Root].a - attr[Root].o

\* C8 witness: a = 5, o = 3 in the second phase scores 7.
PhaseWitness ==
    /\ pc = "evaluated"
    /\ h_type = 1
    /\ rootPly = 70
    /\ attr[Root].a = 5
    /\ attr[Root].o = 3
    /\ ret = 7

\* C9: the random fallback of minimax_decision is reached only when the root
\* has no legal move.
FallbackOnlyWhenEmpty ==
    pc = "fallback" => actions(Root) = <<>>

\* C9, where it holds: the fallback is reached only when no root move
\* scored above -infinity, and then best_move was never set.
FallbackOnlyWithoutScore ==
    pc = "fallback" =>
        /\ best_move = None
        /\ \A i \in 1..Len(scores) : scores[i] = -Inf

\* C10: every call receives an alpha no smaller and a beta no greater than
\* its caller received; min_value hands its own alpha, max_value its own
\* beta and minimax_decision its beta to every call it makes, whatever the
\* calls made before tightened.
BoundMonotone ==
    \A c \in calls :
        LET p == Received(c.caller)
        IN  /\ c.alpha >= p.alpha
            /\ c.beta <= p.beta
            /\ p.fn = "min_value" => c.alpha = p.alpha
            /\ p.fn = "max_value" => c.beta = p.beta
            /\ p.fn = "minimax_decision" => c.beta = p.beta

\* C10 witness: a max_value call expanded its position and raised its alpha
\* to a finite value, and the next call of the same min_value caller
\* received the caller's alpha, below that value.
BoundWitness ==
    \E c1 \in calls, c2 \in calls :
        /\ c1.caller = c2.caller
        /\ c1.caller # Root
        /\ c1.state < c2.state
        /\ c1.fn = "max_value"
        /\ Expanded(c1)
        /\ c1.value > c1.alpha
        /\ c1.value < Inf
        /\ c2.alpha = Received(c1.caller).alpha
        /\ c2.alpha < c1.value
        /\ c2.beta < Received(c1.caller).beta

=============================================================================
